---- MODULE Spec2Model ----
(***************************************************************************)
(* A model of CodeLoader (src/src/code/loader.ts): sandboxed file          *)
(* resolution, :include / :import / :define processing and macro           *)
(* expansion with named slots.                                             *)
(*                                                                         *)
(* Strings are sequences of one-character strings, so that startsWith,     *)
(* substring, path normalisation and the tag regular expression are        *)
(* computed character by character as the code computes them.  Syntax      *)
(* trees live in a heap of nodes (index = object identity); children are   *)
(* lists of node ids, so the aliasing of the JavaScript objects is kept.   *)
(***************************************************************************)
EXTENDS Integers, Sequences, FiniteSets, TLC

\* ------------------------------------------------------------------------
\* program constants (loader.ts lines 9-18)
\* ------------------------------------------------------------------------
MAX_NESTING == 100
TAGS_PREFIX == <<":">>
INCLUDE_TAG == <<":", "i", "n", "c", "l", "u", "d", "e">>
IMPORT_TAG == <<":", "i", "m", "p", "o", "r", "t">>
INCLUDE_SRC_ATTR == <<"s", "r", "c">>
DEFINE_TAG == <<":", "d", "e", "f", "i", "n", "e">>
DEFINE_TAG_ATTR == <<"t", "a", "g">>
SLOT_TAG == <<":", "s", "l", "o", "t">>
SLOT_NAME_ATTR == <<"n", "a", "m", "e">>
SLOT_DEFAULT_NAME == <<"d", "e", "f", "a", "u", "l", "t">>

\* ------------------------------------------------------------------------
\* strings
\* ------------------------------------------------------------------------
Min(a, b) == IF a < b THEN a ELSE b
Max(a, b) == IF a > b THEN a ELSE b

\* String.prototype.startsWith
StartsWith(s, p) ==
  /\ Len(p) <= Len(s)
  /\ \A k \in 1..Len(p) : s[k] = p[k]

\* String.prototype.substring(n)
Substring(s, n) == IF n >= Len(s) THEN <<>> ELSE SubSeq(s, n + 1, Len(s))

\* String.prototype.indexOf(c), -1 when c is not in s
StrIndexOf(s, c) ==
  IF \E k \in 1..Len(s) : s[k] = c
  THEN (CHOOSE k \in 1..Len(s) : s[k] = c /\ \A j \in 1..(k - 1) : s[j] # c) - 1
  ELSE -1

\* /^\s*$/ and !s.trim()
WhiteSpace == {" ", "\t", "\n"}
IsBlank(s) == \A k \in 1..Len(s) : s[k] \in WhiteSpace

\* \w and '-' of the regular expression in collectMacro
WordChars ==
  {"a", "b", "c", "d", "e", "f", "g", "h", "i", "j", "k", "l", "m", "n", "o",
   "p", "q", "r", "s", "t", "u", "v", "w", "x", "y", "z", "_",
   "0", "1", "2", "3", "4", "5", "6", "7", "8", "9"}
IsNameChars(s) == Len(s) > 0 /\ \A k \in 1..Len(s) : s[k] \in WordChars \cup {"-"}

\* ------------------------------------------------------------------------
\* path (node:path, posix), as called at loader.ts lines 75 and 111
\* ------------------------------------------------------------------------
RECURSIVE SplitAt(_, _, _)
\* the segments of s between the separators sep; cur is the segment being read
SplitAt(s, sep, cur) ==
  IF s = <<>> THEN <<cur>>
  ELSE IF Head(s) = sep THEN <<cur>> \o SplitAt(Tail(s), sep, <<>>)
  ELSE SplitAt(Tail(s), sep, Append(cur, Head(s)))

Split(s, sep) == SplitAt(s, sep, <<>>)

RECURSIVE Join(_, _)
Join(segs, sep) ==
  IF segs = <<>> THEN <<>>
  ELSE IF Len(segs) = 1 THEN segs[1]
  ELSE segs[1] \o <<sep>> \o Join(Tail(segs), sep)

DotDot == <<".", ".">>

RECURSIVE NormalizeSegs(_, _, _)
\* normalizeString: res is the list of segments kept so far
NormalizeSegs(segs, res, allowAboveRoot) ==
  IF segs = <<>> THEN res
  ELSE
    LET g == Head(segs) IN
    IF g = <<>> \/ g = <<".">> THEN NormalizeSegs(Tail(segs), res, allowAboveRoot)
    ELSE IF g = DotDot THEN
      IF Len(res) > 0 /\ res[Len(res)] # DotDot
      THEN NormalizeSegs(Tail(segs), SubSeq(res, 1, Len(res) - 1), allowAboveRoot)
      ELSE IF allowAboveRoot
      THEN NormalizeSegs(Tail(segs), Append(res, g), allowAboveRoot)
      ELSE NormalizeSegs(Tail(segs), res, allowAboveRoot)
    ELSE NormalizeSegs(Tail(segs), Append(res, g), allowAboveRoot)

\* path.normalize
Normalize(p) ==
  IF p = <<>> THEN <<".">>
  ELSE
    LET isAbsolute == p[1] = "/"
        trailing == p[Len(p)] = "/"
        body == Join(NormalizeSegs(Split(p, "/"), <<>>, ~isAbsolute), "/")
    IN IF body = <<>>
       THEN (IF isAbsolute THEN <<"/">> ELSE IF trailing THEN <<".", "/">> ELSE <<".">>)
       ELSE (IF isAbsolute THEN <<"/">> ELSE <<>>) \o body
            \o (IF trailing THEN <<"/">> ELSE <<>>)

RECURSIVE NonEmpty(_)
NonEmpty(parts) ==
  IF parts = <<>> THEN <<>>
  ELSE (IF Head(parts) = <<>> THEN <<>> ELSE <<Head(parts)>>) \o NonEmpty(Tail(parts))

\* path.join
PathJoin(parts) ==
  LET used == NonEmpty(parts)
  IN IF used = <<>> THEN <<".">> ELSE Normalize(Join(used, "/"))

\* path.dirname
Dirname(p) ==
  IF p = <<>> THEN <<".">>
  ELSE
    LET hasRoot == p[1] = "/"
        \* 1-based positions i >= 2 of a '/' that has a non-'/' after it
        ends == {i \in 2..Len(p) : p[i] = "/" /\ \E j \in (i + 1)..Len(p) : p[j] # "/"}
    IN IF ends = {} THEN (IF hasRoot THEN <<"/">> ELSE <<".">>)
       ELSE LET e == CHOOSE i \in ends : \A j \in ends : j <= i
            IN IF hasRoot /\ e = 2 THEN <<"/", "/">> ELSE SubSeq(p, 1, e - 1)

\* ------------------------------------------------------------------------
\* arrays
\* ------------------------------------------------------------------------
\* Array.prototype.indexOf, 0-based, -1 when x is not in a
IndexOf(a, x) ==
  IF \E k \in 1..Len(a) : a[k] = x
  THEN (CHOOSE k \in 1..Len(a) : a[k] = x /\ \A j \in 1..(k - 1) : a[j] # x) - 1
  ELSE -1

\* Array.prototype.splice(start, deleteCount, ...items): a negative start counts
\* from the end of the array
Splice(a, start, deleteCount, items) ==
  LET from == IF start < 0 THEN Max(Len(a) + start, 0) ELSE Min(start, Len(a))
      del == Max(0, Min(deleteCount, Len(a) - from))
  IN SubSeq(a, 1, from) \o items \o SubSeq(a, from + del + 1, Len(a))

\* ------------------------------------------------------------------------
\* syntax trees
\* ------------------------------------------------------------------------
\* a JSXElement; in a file's content children are trees, in the heap node ids
Element(name, attributes, children) ==
  [type |-> "JSXElement", name |-> name, attributes |-> attributes,
   selfClosing |-> FALSE, children |-> children, value |-> <<>>]

\* a JSXText
Text(value) ==
  [type |-> "JSXText", name |-> <<>>, attributes |-> <<>>,
   selfClosing |-> FALSE, children |-> <<>>, value |-> value]

\* a JSXAttribute with a literal value
Attr(name, value) == [name |-> name, value |-> value]

RECURSIVE Flatten(_, _)
RECURSIVE FlattenAll(_, _)
\* the nodes of tree t in document order, the root getting id base + 1
Flatten(t, base) ==
  LET k == FlattenAll(t.children, base + 1)
  IN <<[t EXCEPT !.children = k.ids]>> \o k.nodes

FlattenAll(ts, base) ==
  IF ts = <<>> THEN [nodes |-> <<>>, ids |-> <<>>]
  ELSE LET h == Flatten(Head(ts), base)
           r == FlattenAll(Tail(ts), base + Len(h))
       IN [nodes |-> h \o r.nodes, ids |-> <<base + 1>> \o r.ids]

\* CodeParser.parse of a well-formed file: fresh objects for every node
ParseTree(nodes, t) == nodes \o Flatten(t, Len(nodes))

RECURSIVE CloneNode(_, _, _)
RECURSIVE CloneAll(_, _, _)
\* the copies of the nodes under id, the copy of id getting id base + 1
CloneNode(nodes, id, base) ==
  LET k == CloneAll(nodes, nodes[id].children, base + 1)
  IN <<[nodes[id] EXCEPT !.children = k.ids]>> \o k.nodes

CloneAll(nodes, ids, base) ==
  IF ids = <<>> THEN [nodes |-> <<>>, ids |-> <<>>]
  ELSE LET h == CloneNode(nodes, Head(ids), base)
           r == CloneAll(nodes, Tail(ids), base + Len(h))
       IN [nodes |-> h \o r.nodes, ids |-> <<base + 1>> \o r.ids]

\* JSON.parse(JSON.stringify(node)): the copy is the node Len(nodes) + 1
DeepClone(nodes, id) == nodes \o CloneNode(nodes, id, Len(nodes))

RECURSIVE WalkPre(_, _)
RECURSIVE WalkPost(_, _)
RECURSIVE WalkKids(_, _, _, _)
\* the JSXElements below id that have a JSXElement as parent, with that parent
WalkPre(nodes, id) == WalkKids(nodes, id, nodes[id].children, "pre")
WalkPost(nodes, id) == WalkKids(nodes, id, nodes[id].children, "post")

WalkKids(nodes, parent, kids, order) ==
  IF kids = <<>> THEN <<>>
  ELSE
    LET c == Head(kids)
        here == <<[node |-> c, parent |-> parent]>>
        below == WalkKids(nodes, c, nodes[c].children, order)
        rest == WalkKids(nodes, parent, Tail(kids), order)
    IN IF nodes[c].type # "JSXElement" THEN rest
       ELSE IF order = "pre" THEN here \o below \o rest
       ELSE below \o here \o rest

\* walker.ancestor(root, {JSXElement(node, _, ancestors) {...}}) with the test
\* parent?.type === 'JSXElement': the elements visited, in the walker's order
Walk(nodes, id, order) ==
  IF order = "pre" THEN WalkPre(nodes, id) ELSE WalkPost(nodes, id)

\* ------------------------------------------------------------------------
\* attributes (./utils)
\* ------------------------------------------------------------------------
\* getJSXAttributeKeys
getJSXAttributeKeys(e) == [k \in 1..Len(e.attributes) |-> e.attributes[k].name]

HasAttribute(e, key) == \E k \in 1..Len(e.attributes) : e.attributes[k].name = key

\* the position of the first attribute called key
AttributeAt(e, key) ==
  CHOOSE k \in 1..Len(e.attributes) :
    /\ e.attributes[k].name = key
    /\ \A j \in 1..(k - 1) : e.attributes[j].name # key

\* getJSXAttributeNode: call only when HasAttribute
getJSXAttributeNode(e, key) == e.attributes[AttributeAt(e, key)]

\* getJSXAttribute: the literal value; <<>> stands for undefined too, every
\* caller testing only for a falsy result (!src?.trim(), !tag, !name, || default)
getJSXAttribute(e, key) ==
  IF HasAttribute(e, key) THEN getJSXAttributeNode(e, key).value ELSE <<>>

\* removeJSXAttribute
removeJSXAttribute(e, key) ==
  IF HasAttribute(e, key)
  THEN [e EXCEPT !.attributes =
         SubSeq(e.attributes, 1, AttributeAt(e, key) - 1)
         \o SubSeq(e.attributes, AttributeAt(e, key) + 1, Len(e.attributes))]
  ELSE e

\* ------------------------------------------------------------------------
\* diagnostics
\* ------------------------------------------------------------------------
\* new CodeError(type, msg, from): msg is the fixed part of the message, arg the
\* name or path quoted in it
CodeError(type, msg, arg) == [type |-> type, msg |-> msg, arg |-> arg]

\* ------------------------------------------------------------------------
\* slot maps: { [key: string]: { node, parent } }, keys in insertion order
\* ------------------------------------------------------------------------
MapHas(mp, key) == \E k \in 1..Len(mp) : mp[k].name = key
MapGet(mp, key) == mp[CHOOSE k \in 1..Len(mp) : mp[k].name = key]
MapPut(mp, key, node, parent) ==
  LET entry == [name |-> key, node |-> node, parent |-> parent]
  IN IF MapHas(mp, key)
     THEN [k \in 1..Len(mp) |-> IF mp[k].name = key THEN entry ELSE mp[k]]
     ELSE Append(mp, entry)

\* ------------------------------------------------------------------------
\* macros
\* ------------------------------------------------------------------------
\* addDefaultSlot: the new slot is node Len(nodes) + 1, last child of node
addDefaultSlot(nodes, node) ==
  Append([nodes EXCEPT ![node].children = Append(@, Len(nodes) + 1)],
         Element(SLOT_TAG, <<Attr(SLOT_NAME_ATTR, SLOT_DEFAULT_NAME)>>, <<>>))

RECURSIVE CollectSlotsWalk(_, _, _, _, _, _)
\* the walker callback of collectSlots, over the elements walk still has to visit
CollectSlotsWalk(nodes, walk, errors, ret, hasIgnore, ignore) ==
  IF walk = <<>> THEN [errors |-> errors, slots |-> ret]
  ELSE
    LET w == Head(walk)
        e == nodes[w.node]
        name == getJSXAttribute(e, SLOT_NAME_ATTR)
    IN IF e.name # SLOT_TAG
       THEN CollectSlotsWalk(nodes, Tail(walk), errors, ret, hasIgnore, ignore)
       ELSE IF name = <<>>
       THEN CollectSlotsWalk(nodes, Tail(walk),
              Append(errors, CodeError("error", "missing slot name attribute", <<>>)),
              ret, hasIgnore, ignore)
       ELSE IF hasIgnore /\ MapHas(ignore, name) /\ MapGet(ignore, name).node = w.node
       THEN CollectSlotsWalk(nodes, Tail(walk), errors, ret, hasIgnore, ignore)
       ELSE CollectSlotsWalk(nodes, Tail(walk), errors,
              MapPut(ret, name, w.node, w.parent), hasIgnore, ignore)

\* collectSlots, lines 287-291: r is what the walk collected
WithDefaultSlot(nodes, node, r, hasIgnore) ==
  IF ~MapHas(r.slots, SLOT_DEFAULT_NAME) /\ ~hasIgnore
  THEN [nodes |-> addDefaultSlot(nodes, node), errors |-> r.errors,
        slots |-> MapPut(r.slots, SLOT_DEFAULT_NAME, Len(nodes) + 1, node)]
  ELSE [nodes |-> nodes, errors |-> r.errors, slots |-> r.slots]

\* collectSlots(node, source, ignore); hasIgnore tells whether ignore was passed
collectSlots(nodes, errors, node, hasIgnore, ignore, order) ==
  WithDefaultSlot(nodes, node,
    CollectSlotsWalk(nodes, Walk(nodes, node, order), errors, <<>>, hasIgnore, ignore),
    hasIgnore)

RECURSIVE MergeAttributes(_, _, _)
\* populateMacro, first loop: the use-site's attributes onto dst's opening tag
MergeAttributes(src, dst, keys) ==
  IF keys = <<>> THEN dst
  ELSE
    LET key == Head(keys)
        srcAttr == getJSXAttributeNode(src, key)
    IN MergeAttributes(src,
         IF HasAttribute(dst, key)
         THEN [dst EXCEPT !.attributes[AttributeAt(dst, key)].value = srcAttr.value]
         ELSE [dst EXCEPT !.attributes = Append(@, srcAttr)],
         Tail(keys))

RECURSIVE RouteChildren(_, _, _)
\* populateMacro, second loop: each child of the use-site goes before its slot
RouteChildren(nodes, kids, slots) ==
  IF kids = <<>> THEN nodes
  ELSE
    LET node == Head(kids)
        named == IF nodes[node].type = "JSXElement"
                 THEN getJSXAttribute(nodes[node], SLOT_NAME_ATTR) ELSE <<>>
        slotName == IF named = <<>> THEN SLOT_DEFAULT_NAME ELSE named
    IN IF ~MapHas(slots, slotName)
       THEN RouteChildren(nodes, Tail(kids), slots)
       ELSE LET slot == MapGet(slots, slotName)
                i == IndexOf(nodes[slot.parent].children, slot.node)
            IN RouteChildren(
                 [nodes EXCEPT ![slot.parent].children = Splice(@, i, 0, <<node>>)],
                 Tail(kids), slots)

RECURSIVE RemoveSlots(_, _)
\* populateMacro, last loop: each slot is replaced by its own children
RemoveSlots(nodes, slots) ==
  IF slots = <<>> THEN nodes
  ELSE
    LET slot == Head(slots)
        i == IndexOf(nodes[slot.parent].children, slot.node)
    IN RemoveSlots(
         [nodes EXCEPT ![slot.parent].children =
            Splice(@, i, 1, nodes[slot.node].children)],
         Tail(slots))

\* populateMacro without its last loop
FinishSlotsKept(routed, cs, removeSlots) ==
  [nodes |-> routed, errors |-> cs.errors, slots |-> cs.slots]

\* populateMacro, lines 382-390: routed is the heap after the second loop
FinishSlots(routed, cs, removeSlots) ==
  IF ~removeSlots
  THEN [nodes |-> routed, errors |-> cs.errors, slots |-> cs.slots]
  ELSE [nodes |-> RemoveSlots(routed, cs.slots), errors |-> cs.errors, slots |-> <<>>]

\* populateMacro, lines 366-390: cs is what collectSlots(dst, source) gave
PopulateSlots(cs, src, removeSlots) ==
  FinishSlots(RouteChildren(cs.nodes, cs.nodes[src].children, cs.slots), cs, removeSlots)

\* populateMacro(src, dst, source, removeSlots)
populateMacro(nodes, errors, src, dst, removeSlots, order) ==
  PopulateSlots(
    collectSlots(
      [nodes EXCEPT ![dst] =
         MergeAttributes(nodes[src], nodes[dst], getJSXAttributeKeys(nodes[src]))],
      errors, dst, FALSE, <<>>, order),
    src, removeSlots)

RECURSIVE RemoveOldSlots(_, _, _)
\* expandMacro, lines 342-348: the parent's slots the child macro redefines go
RemoveOldSlots(nodes, newSlots, oldSlots) ==
  IF newSlots = <<>> THEN nodes
  ELSE
    LET key == Head(newSlots).name IN
    IF ~MapHas(oldSlots, key) THEN RemoveOldSlots(nodes, Tail(newSlots), oldSlots)
    ELSE LET oldSlot == MapGet(oldSlots, key)
             i == IndexOf(nodes[oldSlot.parent].children, oldSlot.node)
         IN RemoveOldSlots(
              [nodes EXCEPT ![oldSlot.parent].children = Splice(@, i, 1, <<>>)],
              Tail(newSlots), oldSlots)

\* the test with the bound moved by one
TooDeepLate(nesting) == nesting > MAX_NESTING + 1

\* the test of expandMacro, line 332
TooDeep(nesting) == nesting > MAX_NESTING

\* expandMacro without the loop of lines 342-348
WithOldSlots(ns, oldSlots, ret) ==
  [nodes |-> ns.nodes, errors |-> ns.errors, res |-> ret]

\* expandMacro, lines 341-348: ns is what collectSlots(ret, source, oldSlots) gave
WithoutOldSlots(ns, oldSlots, ret) ==
  [nodes |-> RemoveOldSlots(ns.nodes, ns.slots, oldSlots), errors |-> ns.errors,
   res |-> ret]

\* expandMacro, lines 339-350: pm is what populateMacro gave, ret the clone
Stamped(pm, ret, removeSlots, order) ==
  IF removeSlots
  THEN [nodes |-> pm.nodes, errors |-> pm.errors, res |-> ret]
  ELSE WithoutOldSlots(collectSlots(pm.nodes, pm.errors, ret, TRUE, pm.slots, order),
                       pm.slots, ret)

\* expandMacro(use, macro, source, removeSlots, nesting): res is the node returned
expandMacro(nodes, errors, use, macro, removeSlots, nesting, order) ==
  IF TooDeep(nesting)
  THEN [nodes |-> nodes,
        errors |-> Append(errors, CodeError("error", "too many nested macros", macro.name)),
        res |-> use]
  ELSE Stamped(populateMacro(DeepClone(nodes, macro.node), errors, use,
                             Len(nodes) + 1, removeSlots, order),
               Len(nodes) + 1, removeSlots, order)

\* /^([\-\w]+)(\:[\-\w]+)?$/.exec(tag)
TagMatches(tag) ==
  LET parts == Split(tag, ":")
  IN /\ Len(parts) \in {1, 2}
     /\ \A k \in 1..Len(parts) : IsNameChars(parts[k])

\* res[1]
TagName(tag) == Split(tag, ":")[1]

\* res[2] ? res[2].substring(1) : 'div'
TagBase(tag) ==
  IF Len(Split(tag, ":")) = 2 THEN Split(tag, ":")[2] ELSE <<"d", "i", "v">>

\* source.macros[name] = def
MacrosPut(macros, name, def) ==
  [n \in DOMAIN macros \cup {name} |-> IF n = name THEN def ELSE macros[n]]

\* collectMacro, line 252: x is the body to store, expanded against the parent
\* macro when there is one
Registered(x, macros, name, base, hasFrom) ==
  [nodes |-> x.nodes, errors |-> x.errors,
   macros |-> MacrosPut(macros, name,
                [name |-> name, node |-> x.res, base |-> base,
                 from |-> IF hasFrom THEN base ELSE <<>>])]

\* collectMacro, line 235
HasFrom(base, macros) == StrIndexOf(base, "-") > 0 /\ base \in DOMAIN macros

\* collectMacro, lines 236-247
Renamed(nodes, node, base) ==
  [nodes EXCEPT ![node] =
     [removeJSXAttribute(@, DEFINE_TAG_ATTR) EXCEPT !.name = base, !.selfClosing = FALSE]]

\* collectMacro, lines 233-252, for a tag the regular expression matches
Collected(nodes, errors, macros, d, name, base, order) ==
  Registered(
    IF HasFrom(base, macros)
    THEN expandMacro(Renamed(nodes, d.node, base), errors, d.node, macros[base],
                     FALSE, 0, order)
    ELSE [nodes |-> Renamed(nodes, d.node, base), errors |-> errors, res |-> d.node],
    macros, name, base, HasFrom(base, macros))

\* collectMacro, lines 217-232
TagChecked(nodes, errors, macros, d, tag, order) ==
  IF tag = <<>>
  THEN [nodes |-> nodes, macros |-> macros,
        errors |-> Append(errors, CodeError("warning", "bad or missing tag attribute", <<>>))]
  ELSE IF ~TagMatches(tag)
  THEN [nodes |-> nodes, macros |-> macros,
        errors |-> Append(errors, CodeError("warning", "invalid tag name", tag))]
  ELSE Collected(nodes, errors, macros, d, TagName(tag), TagBase(tag), order)

\* collectMacro(d, source)
collectMacro(nodes, errors, macros, d, order) ==
  TagChecked(nodes, errors, macros, d,
             getJSXAttribute(nodes[d.node], DEFINE_TAG_ATTR), order)

\* ------------------------------------------------------------------------
\* state
\* ------------------------------------------------------------------------
VARIABLES
  rootPath,   \* CodeLoader.rootPath
  fsys,       \* the file system: absolute path -> what reading and parsing it gives
  entry,      \* the fname given to load
  order,      \* the order in which walker.ancestor calls back: "pre" or "post"
  family,     \* which family of inputs this load was drawn from, and its size
  nodes,      \* the heap of syntax tree nodes
  files,      \* source.files
  errors,     \* source.errors
  macros,     \* source.macros
  ast,        \* source.ast: the root element's node, 0 for undefined
  reads,      \* every fs.promises.readFile made: its path and the nesting
  stack,      \* the calls of processDirectives / expandMacros in progress
  last,       \* what the latest step did
  pc,         \* "start", "directives", "expand" or "done"
  tick        \* flips at every step load takes

vars == <<rootPath, fsys, entry, order, family, nodes, files, errors, macros,
          ast, reads, stack, last, pc, tick>>

inputs == <<rootPath, fsys, entry, order, family>>

\* load took a step
Ticked == tick' = 1 - tick

\* ------------------------------------------------------------------------
\* parse (lines 63-110, up to the call of processDirectives)
\* ------------------------------------------------------------------------
\* the test of parse, line 68
\* the test with the bound moved by one
TooNestedLate(nesting) == nesting > MAX_NESTING

TooNested(nesting) == nesting >= MAX_NESTING

\* line 75
ResolvePath(root, currDir, fname) ==
  Normalize(PathJoin(<<root, IF StartsWith(fname, <<"/">>) THEN <<>> ELSE currDir, fname>>))

\* the test of parse, line 76
Forbidden(pname, root) == ~StartsWith(pname, root)

\* parse without the return of line 84
SkipKnownNever(known, once) == FALSE

\* lines 82-86: whether parse returns without reading the file
SkipKnown(known, once) == known /\ once

Outcome(status, relPath, pname, fs, es) ==
  [status |-> status, relPath |-> relPath, pname |-> pname, files |-> fs, errors |-> es]

\* parse, lines 76-110, pname being the path of line 75
ParseAt(pname, nesting, once, fs, es) ==
  LET relPath == Substring(pname, Len(rootPath))
      known == \E k \in 1..Len(fs) : fs[k] = relPath
      fs2 == IF known THEN fs ELSE Append(fs, relPath)
  IN IF TooNested(nesting)
     THEN Outcome("deep", <<>>, <<>>, fs,
                  Append(es, CodeError("error", "too many nested inclusions", <<>>)))
     ELSE IF Forbidden(pname, rootPath)
     THEN Outcome("forbidden", <<>>, pname, fs,
                  Append(es, CodeError("error", "forbidden pathname", pname)))
     ELSE IF SkipKnown(known, once)
     THEN Outcome("skipped", relPath, pname, fs2, es)
     ELSE IF pname \notin DOMAIN fsys
     THEN Outcome("unreadable", relPath, pname, fs2,
                  Append(es, CodeError("error", "failed to read", relPath)))
     ELSE IF fsys[pname].kind = "syntax"
     THEN Outcome("syntax", relPath, pname, fs2,
                  Append(es, CodeError("error", "parser error", relPath)))
     ELSE IF fsys[pname].kind # "element"
     THEN Outcome("noroot", relPath, pname, fs2,
                  Append(es, CodeError("error", "HTML tag expected", relPath)))
     ELSE Outcome("ok", relPath, pname, fs2, es)

\* parse(fname, currDir, source, nesting, once): status "ok" means the root
\* element is there and processDirectives is to be called
parse(fname, currDir, nesting, once, fs, es) ==
  ParseAt(ResolvePath(rootPath, currDir, fname), nesting, once, fs, es)

\* whether parse got as far as readFile
DidRead(o) == o.status \in {"unreadable", "syntax", "noroot", "ok"}

LogRead(o, nesting) ==
  IF DidRead(o) THEN Append(reads, [path |-> o.pname, nesting |-> nesting]) ELSE reads

\* ------------------------------------------------------------------------
\* processDirectives
\* ------------------------------------------------------------------------
RECURSIVE SelectDirectives(_, _)
\* lines 120-134: the elements whose name starts with ':'
SelectDirectives(ns, walk) ==
  IF walk = <<>> THEN <<>>
  ELSE (IF StartsWith(ns[Head(walk).node].name, TAGS_PREFIX)
        THEN <<[name |-> ns[Head(walk).node].name, node |-> Head(walk).node,
                parent |-> Head(walk).parent]>>
        ELSE <<>>)
       \o SelectDirectives(ns, Tail(walk))

NoDirective == [name |-> <<>>, node |-> 0, parent |-> 0]

\* a call of processDirectives(program, currDir, source, nesting) for the file
\* included by directive d, found at index i of its parent (d.node = 0: by load);
\* attrs keeps the attributes d's parent had when the inclusion began
DirectivesFrame(ns, program, currDir, nesting, d, i) ==
  [kind |-> "directives", items |-> SelectDirectives(ns, Walk(ns, program, order)),
   idx |-> 1, currDir |-> currDir, nesting |-> nesting, program |-> program,
   d |-> d, i |-> i,
   attrs |-> IF d.node = 0 THEN <<>> ELSE ns[d.parent].attributes]

Top == stack[Len(stack)]
Pop == SubSeq(stack, 1, Len(stack) - 1)
\* the stack with the top frame moved on to its next item
Advance == [stack EXCEPT ![Len(stack)].idx = @ + 1]

InLoop(kind) ==
  /\ Len(stack) > 0
  /\ Top.kind = kind
  /\ Top.idx <= Len(Top.items)

LoopDone(kind) ==
  /\ Len(stack) > 0
  /\ Top.kind = kind
  /\ Top.idx > Len(Top.items)

Step(op) ==
  [op |-> op, status |-> "", pname |-> <<>>, relPath |-> <<>>, known |-> FALSE,
   once |-> FALSE, nesting |-> 0, parent |-> 0, i |-> 0, root |-> 0,
   nodes |-> <<>>, errors |-> <<>>, files |-> <<>>, macros |-> <<>>,
   attrs |-> <<>>, use |-> 0]

\* what a step of processInclude leaves in last: the path asked for, whether it
\* was in files already, and the state the step started from
AskedAt(op, status, src, pname, nesting, d, i) ==
  LET relPath == Substring(pname, Len(rootPath))
      inside == ~IsBlank(src) /\ ~Forbidden(pname, rootPath)
  IN [Step(op) EXCEPT !.status = status,
        !.pname = IF IsBlank(src) THEN <<>> ELSE pname,
        !.relPath = IF inside THEN relPath ELSE <<>>,
        !.known = inside /\ \E k \in 1..Len(files) : files[k] = relPath,
        !.once = d.name = IMPORT_TAG, !.nesting = nesting, !.parent = d.parent,
        !.i = i, !.nodes = nodes, !.errors = errors, !.files = files]

\* lines 136-138: the directive leaves its parent's children
RemoveDirective(ns, d) ==
  LET i == IndexOf(ns[d.parent].children, d.node)
  IN IF i >= 0 THEN [ns EXCEPT ![d.parent].children = Splice(@, i, 1, <<>>)] ELSE ns

\* load, line 58, o being what parse(fname, '.', ret, 0) gave
Loaded(o) ==
  /\ files' = o.files
  /\ errors' = o.errors
  /\ reads' = LogRead(o, 0)
  /\ last' = [Step("load") EXCEPT !.status = o.status, !.relPath = o.relPath,
                                  !.pname = o.pname]
  /\ IF o.status = "ok"
     THEN /\ nodes' = ParseTree(nodes, fsys[o.pname].tree)
          /\ stack' = <<DirectivesFrame(ParseTree(nodes, fsys[o.pname].tree),
                                        Len(nodes) + 1, Dirname(o.relPath), 0,
                                        NoDirective, 0)>>
          /\ pc' = "directives"
     ELSE /\ nodes' = nodes
          /\ stack' = <<>>
          /\ pc' = "done"

\* load, line 58: parse(fname, '.', ret, 0)
Load ==
  /\ pc = "start"
  /\ Loaded(parse(entry, <<".">>, 0, FALSE, files, errors))
  /\ Ticked
  /\ UNCHANGED <<inputs, macros, ast>>

\* processInclude, lines 168-170, o being what parse gave and ns the heap with
\* the parsed file added
Entered(o, ns, d, i, src) ==
  /\ o.status = "ok"
  /\ nodes' = ns
  /\ files' = o.files
  /\ errors' = o.errors
  /\ reads' = LogRead(o, Top.nesting + 1)
  /\ stack' = Append(Advance,
                DirectivesFrame(ns, Len(nodes) + 1, Dirname(o.relPath),
                                Top.nesting + 1, d, i))
  /\ last' = AskedAt("enter", o.status, src, o.pname, Top.nesting + 1, d, i)

EnteredFile(o, d, i, src) ==
  /\ o.status = "ok"
  /\ Entered(o, ParseTree(RemoveDirective(nodes, d), fsys[o.pname].tree), d, i, src)

\* the directive the top call of processDirectives is at
Current == Top.items[Top.idx]

\* processInclude up to the return of parse, when parse gives a tree: the
\* included file's own directives come next
IncludeEnter ==
  /\ pc = "directives" /\ InLoop("directives")
  /\ Current.name \in {INCLUDE_TAG, IMPORT_TAG}
  /\ ~IsBlank(getJSXAttribute(nodes[Current.node], INCLUDE_SRC_ATTR))
  /\ EnteredFile(parse(getJSXAttribute(nodes[Current.node], INCLUDE_SRC_ATTR),
                       Top.currDir, Top.nesting + 1, Current.name = IMPORT_TAG,
                       files, errors),
                 Current, IndexOf(nodes[Current.parent].children, Current.node),
                 getJSXAttribute(nodes[Current.node], INCLUDE_SRC_ATTR))
  /\ Ticked
  /\ UNCHANGED <<inputs, macros, ast, pc>>

\* processInclude, lines 171-173: parse gave no tree
Failed(o, d, i, src) ==
  /\ o.status # "ok"
  /\ errors' = o.errors
  /\ files' = o.files
  /\ reads' = LogRead(o, Top.nesting + 1)
  /\ last' = AskedAt("fail", o.status, src,
                     ResolvePath(rootPath, Top.currDir, src), Top.nesting + 1, d, i)

\* processInclude when src is missing or blank, or parse gives no tree
IncludeFail ==
  /\ pc = "directives" /\ InLoop("directives")
  /\ Current.name \in {INCLUDE_TAG, IMPORT_TAG}
  /\ nodes' = RemoveDirective(nodes, Current)
  /\ IF IsBlank(getJSXAttribute(nodes[Current.node], INCLUDE_SRC_ATTR))
     THEN /\ errors' = Append(errors, CodeError("error", "missing src attribute", <<>>))
          /\ UNCHANGED <<files, reads>>
          /\ last' = AskedAt("fail", "nosrc", <<>>, <<>>, Top.nesting + 1, Current,
                             IndexOf(nodes[Current.parent].children, Current.node))
     ELSE Failed(parse(getJSXAttribute(nodes[Current.node], INCLUDE_SRC_ATTR),
                       Top.currDir, Top.nesting + 1, Current.name = IMPORT_TAG,
                       files, errors),
                 Current, IndexOf(nodes[Current.parent].children, Current.node),
                 getJSXAttribute(nodes[Current.node], INCLUDE_SRC_ATTR))
  /\ stack' = Advance
  /\ Ticked
  /\ UNCHANGED <<inputs, macros, ast, pc>>

\* the test without the lookup in existing
MissingAlways(existing, name) == TRUE

\* line 205: !existing.includes(key)
Missing(existing, name) == ~\E k \in 1..Len(existing) : existing[k] = name

RECURSIVE PushMissing(_, _, _, _)
\* applyIncludedAttributes, lines 204-209: existing is read once, before the loop
PushMissing(p, r, existing, included) ==
  IF included = <<>> THEN p
  ELSE PushMissing(
         IF ~Missing(existing, Head(included))
         THEN p
         ELSE [p EXCEPT !.attributes = Append(@, getJSXAttributeNode(r, Head(included)))],
         r, existing, Tail(included))

\* applyIncludedAttributes(directive, rootElement)
applyIncludedAttributes(ns, d, rootElement) ==
  [ns EXCEPT ![d.parent] =
     PushMissing(@, ns[rootElement], getJSXAttributeKeys(ns[d.parent]),
                 getJSXAttributeKeys(ns[rootElement]))]

IsBlankText(n) == n.type = "JSXText" /\ IsBlank(n.value)

\* processInclude, lines 179-191: the root's children less one blank text at
\* each end
IncludedContents(ns, rootElement) ==
  LET all == ns[rootElement].children
      nn == IF Len(all) > 0 /\ IsBlankText(ns[all[1]]) THEN Tail(all) ELSE all
  IN IF Len(nn) > 0 /\ IsBlankText(ns[nn[Len(nn)]])
     THEN SubSeq(nn, 1, Len(nn) - 1) ELSE nn

\* processInclude, lines 177-192, applied being the heap after line 177
Spliced(applied, d, i, rootElement) ==
  [applied EXCEPT ![d.parent].children =
     Splice(@, i, 0, IncludedContents(applied, rootElement))]

\* processInclude, lines 174-192, once the included file's directives are done
IncludeReturn ==
  /\ pc = "directives" /\ LoopDone("directives")
  /\ Top.d.node # 0
  /\ nodes' = Spliced(applyIncludedAttributes(nodes, Top.d, Top.program),
                      Top.d, Top.i, Top.program)
  /\ last' = [Step("return") EXCEPT !.status = "ok", !.once = Top.d.name = IMPORT_TAG,
                !.nesting = Top.nesting, !.parent = Top.d.parent, !.i = Top.i,
                !.root = Top.program, !.nodes = nodes, !.errors = errors,
                !.files = files, !.attrs = Top.attrs]
  /\ stack' = Pop
  /\ Ticked
  /\ UNCHANGED <<inputs, files, errors, macros, ast, reads, pc>>

\* processDirectives, lines 140-142, r being what collectMacro gave
Defined(r) ==
  /\ nodes' = r.nodes
  /\ errors' = r.errors
  /\ macros' = r.macros

\* processDirectives, lines 140-142
Define ==
  /\ pc = "directives" /\ InLoop("directives")
  /\ Current.name = DEFINE_TAG
  /\ Defined(collectMacro(RemoveDirective(nodes, Current), errors, macros, Current, order))
  /\ last' = [Step("define") EXCEPT !.root = Current.node, !.parent = Current.parent,
                !.nodes = nodes, !.errors = errors, !.macros = macros]
  /\ stack' = Advance
  /\ Ticked
  /\ UNCHANGED <<inputs, files, ast, reads, pc>>

\* processDirectives, lines 143-144
Slot ==
  /\ pc = "directives" /\ InLoop("directives")
  /\ Current.name = SLOT_TAG
  /\ stack' = Advance
  /\ last' = Step("slot")
  /\ Ticked
  /\ UNCHANGED <<inputs, nodes, files, errors, macros, ast, reads, pc>>

\* processDirectives, lines 145-150
Unknown ==
  /\ pc = "directives" /\ InLoop("directives")
  /\ Current.name \notin {INCLUDE_TAG, IMPORT_TAG, DEFINE_TAG, SLOT_TAG}
  /\ nodes' = RemoveDirective(nodes, Current)
  /\ errors' = Append(errors, CodeError("warning", "unknown directive", Current.name))
  /\ stack' = Advance
  /\ last' = Step("unknown")
  /\ Ticked
  /\ UNCHANGED <<inputs, files, macros, ast, reads, pc>>

\* ------------------------------------------------------------------------
\* expandMacros
\* ------------------------------------------------------------------------
RECURSIVE ExpandUses(_, _, _, _, _)
RECURSIVE UseExpanded(_, _, _, _, _)
\* expandMacros, lines 302-319: the walker callback over the elements in walk
ExpandUses(ns, es, walk, nesting, ee) ==
  IF walk = <<>> THEN [nodes |-> ns, errors |-> es, ee |-> ee]
  ELSE IF ns[Head(walk).node].name \notin DOMAIN macros
  THEN ExpandUses(ns, es, Tail(walk), nesting, ee)
  ELSE UseExpanded(
         expandMacro(ns, es, Head(walk).node, macros[ns[Head(walk).node].name],
                     TRUE, nesting, order),
         Head(walk), Tail(walk), nesting, ee)

\* line 315, x being what expandMacro gave for the element w
UseExpanded(x, w, rest, nesting, ee) ==
  ExpandUses(x.nodes, x.errors, rest, nesting,
             Append(ee, [use |-> w.node, res |-> x.res, parent |-> w.parent]))

\* a call of expandMacros(root, source, nesting), its walk done
FrameOf(x, root, nesting) ==
  [nodes |-> x.nodes, errors |-> x.errors,
   frame |-> [kind |-> "expand", items |-> x.ee, idx |-> 1, currDir |-> <<>>,
              nesting |-> nesting, program |-> root, d |-> NoDirective, i |-> 0,
              attrs |-> <<>>]]

ExpandFrame(ns, es, root, nesting) ==
  FrameOf(ExpandUses(ns, es, Walk(ns, root, order), nesting, <<>>), root, nesting)

\* the state after the walk of a call of expandMacros, on top of the calls in st
Walked(x, st) ==
  /\ nodes' = x.nodes
  /\ errors' = x.errors
  /\ stack' = Append(st, x.frame)

\* parse returns the entry file's program to load (line 58), which calls
\* expandMacros(ret.ast, ret, 0) (line 59)
ParseDone ==
  /\ pc = "directives" /\ LoopDone("directives")
  /\ Top.d.node = 0
  /\ ast' = Top.program
  /\ Walked(ExpandFrame(nodes, errors, Top.program, 0), <<>>)
  /\ pc' = "expand"
  /\ last' = Step("parsed")
  /\ Ticked
  /\ UNCHANGED <<inputs, files, macros, reads>>

\* the use-site e of the top call of expandMacros
CurrentUse == Top.items[Top.idx]

\* expandMacros, lines 322-323
Replaced(ns, e) ==
  [ns EXCEPT ![e.parent].children =
     Splice(@, IndexOf(ns[e.parent].children, e.use), 1, <<e.res>>)]

\* expandMacros, lines 321-325: one turn of the loop, up to the end of the walk
\* of the recursive call
Replace ==
  /\ pc = "expand" /\ InLoop("expand")
  /\ Walked(ExpandFrame(Replaced(nodes, CurrentUse), errors, CurrentUse.res,
                        Top.nesting + 1),
            Advance)
  /\ last' = [Step("replace") EXCEPT !.root = CurrentUse.res,
                !.parent = CurrentUse.parent, !.nesting = Top.nesting,
                !.use = CurrentUse.use]
  /\ Ticked
  /\ UNCHANGED <<inputs, files, macros, ast, reads, pc>>

\* expandMacros returns; load returns when the outermost call does (line 60)
ExpandReturn ==
  /\ pc = "expand" /\ LoopDone("expand")
  /\ stack' = Pop
  /\ pc' = IF Len(stack) = 1 THEN "done" ELSE "expand"
  /\ last' = Step("expanded")
  /\ Ticked
  /\ UNCHANGED <<inputs, nodes, files, errors, macros, ast, reads>>

Next ==
  \/ Load
  \/ IncludeEnter
  \/ IncludeFail
  \/ IncludeReturn
  \/ Define
  \/ Slot
  \/ Unknown
  \/ ParseDone
  \/ Replace
  \/ ExpandReturn

\* ------------------------------------------------------------------------
\* the trees read back from the heap
\* ------------------------------------------------------------------------
RECURSIVE TreeOf(_, _)
\* the tree under node id, children as trees
TreeOf(ns, id) ==
  [ns[id] EXCEPT !.children = [k \in 1..Len(ns[id].children) |->
                                 TreeOf(ns, ns[id].children[k])]]

RECURSIVE Below(_, _)
\* the nodes of the tree under id, id included
Below(ns, id) ==
  {id} \cup UNION {Below(ns, ns[id].children[k]) : k \in 1..Len(ns[id].children)}

\* the elements of the tree under id
ElementsBelow(ns, id) == {n \in Below(ns, id) : ns[n].type = "JSXElement"}

\* ------------------------------------------------------------------------
\* inputs
\* ------------------------------------------------------------------------
HTML == <<"h", "t", "m", "l">>
DIV == <<"d", "i", "v">>
SPAN == <<"s", "p", "a", "n">>
CLASS == <<"c", "l", "a", "s", "s">>
ID == <<"i", "d">>
CARD == <<"c", "a", "r", "d">>
HEADER == <<"h", "e", "a", "d", "e", "r">>
MY_CARD == <<"m", "y", "-", "c", "a", "r", "d">>
MY_BIG == <<"m", "y", "-", "b", "i", "g">>
FOO == <<"f", "o", "o">>
FOOTER == <<"f", "o", "o", "t", "e", "r">>
PARA == <<"p">>

\* a file whose text parses to a tree with one root element
File(tree) == [kind |-> "element", tree |-> tree]
\* a file the parser throws on, and one whose first statement is no JSXElement
SyntaxErrorFile == [kind |-> "syntax", tree |-> Text(<<>>)]
NoRootFile == [kind |-> "text", tree |-> Text(<<>>)]

Include(src) == Element(INCLUDE_TAG, <<Attr(INCLUDE_SRC_ATTR, src)>>, <<>>)
Import(src) == Element(IMPORT_TAG, <<Attr(INCLUDE_SRC_ATTR, src)>>, <<>>)
DefineMacro(tag, attributes, children) ==
  Element(DEFINE_TAG, <<Attr(DEFINE_TAG_ATTR, tag)>> \o attributes, children)
SlotNamed(name) == Element(SLOT_TAG, <<Attr(SLOT_NAME_ATTR, name)>>, <<>>)

\* a load: the family it is drawn from, the document root, the files, the
\* entry name
Family(name, n, once, back) == [name |-> name, n |-> n, once |-> once, back |-> back]
Scenario(fam, root, fs, fname) ==
  [family |-> fam, rootPath |-> root, fsys |-> fs, entry |-> fname]

\* the sequences over S of length at most n
SeqsUpTo(S, n) == UNION {[1..k -> S] : k \in 0..n}

RootD == <<"/", "d">>
PathA == <<"/", "d", "/", "a">>
PathB == <<"/", "d", "/", "b">>
PathC == <<"/", "d", "/", "c">>
PathE == <<"/", "d", "/", "e">>
PathSB == <<"/", "d", "/", "s", "/", "b">>
OutsideX == <<"/", "d", "2", "/", "x">>
OutsideE == <<"/", "e", "/", "x">>

\* ---- card: spec.md, scenario 5 -----------------------------------------
CardDefinition ==
  DefineMacro(MY_CARD, <<>>, <<
    Element(DIV, <<Attr(CLASS, CARD)>>,
            <<SlotNamed(HEADER), SlotNamed(SLOT_DEFAULT_NAME)>>)>>)

CardUse ==
  Element(MY_CARD, <<>>, <<
    Element(SPAN, <<Attr(SLOT_NAME_ATTR, HEADER)>>, <<Text(<<"H">>)>>),
    Text(<<"B">>)>>)

CardPage == Element(HTML, <<>>, <<CardDefinition, CardUse>>)

CardScenarios ==
  {Scenario(Family("card", 0, FALSE, FALSE), RootD, PathA :> File(CardPage), <<"a">>)}

\* ---- inherit: my-big defined with my-card as its base -------------------
MaxKids == 2

ParentPool ==
  {CardDefinition,
   DefineMacro(MY_CARD, <<>>, <<SlotNamed(HEADER)>>),
   DefineMacro(MY_CARD, <<>>, <<Text(<<"P">>)>>),
   DefineMacro(MY_CARD, <<>>, <<SlotNamed(HEADER), SlotNamed(HEADER)>>),
   DefineMacro(MY_CARD, <<>>,
     <<Element(SLOT_TAG, <<Attr(SLOT_NAME_ATTR, HEADER)>>, <<SlotNamed(FOOTER)>>)>>)}

KidPool ==
  {SlotNamed(HEADER), SlotNamed(SLOT_DEFAULT_NAME), SlotNamed(FOOTER),
   Text(<<"T">>),
   Element(SPAN, <<Attr(SLOT_NAME_ATTR, HEADER)>>, <<Text(<<"S">>)>>),
   Element(DIV, <<>>, <<SlotNamed(HEADER)>>),
   Element(PARA, <<Attr(SLOT_NAME_ATTR, <<"z">>)>>, <<SlotNamed(HEADER)>>)}

InheritScenarios ==
  {Scenario(Family("inherit", 0, FALSE, FALSE), RootD,
            PathA :> File(Element(HTML, <<>>,
              <<parent, DefineMacro(MY_BIG \o <<":">> \o MY_CARD, <<>>, kids)>>)),
            <<"a">>) :
     parent \in ParentPool, kids \in SeqsUpTo(KidPool, MaxKids)}

\* ---- recur: a macro whose body uses the macro itself ---------------------
A_B == <<"a", "-", "b">>
C_D == <<"c", "-", "d">>

RecurPages ==
  <<Element(HTML, <<>>,
      <<DefineMacro(A_B, <<>>, <<Element(A_B, <<>>, <<>>)>>), Element(A_B, <<>>, <<>>)>>),
    Element(HTML, <<>>,
      <<DefineMacro(A_B, <<>>, <<Element(DIV, <<>>, <<Element(A_B, <<>>, <<>>)>>)>>),
        Element(A_B, <<>>, <<>>)>>),
    Element(HTML, <<>>,
      <<DefineMacro(A_B, <<>>, <<Element(C_D, <<>>, <<>>)>>),
        DefineMacro(C_D, <<>>, <<Element(A_B, <<>>, <<>>)>>),
        Element(A_B, <<>>, <<>>)>>)>>

RecurScenarios ==
  {Scenario(Family("recur", k, FALSE, FALSE), RootD, PathA :> File(RecurPages[k]), <<"a">>) :
     k \in 1..Len(RecurPages)}

\* ---- macro: definitions and uses in one page ----------------------------
MaxDefs == 2

\* <:define tag="my-big:my-card"><:slot name="header"/>T</:define>
BigDefinition ==
  DefineMacro(MY_BIG \o <<":">> \o MY_CARD, <<>>, <<SlotNamed(HEADER), Text(<<"T">>)>>)

DefPool ==
  {CardDefinition, BigDefinition,
   DefineMacro(FOO, <<>>, <<Text(<<"F">>)>>),
   DefineMacro(<<"m", "y", " ", "x">>, <<>>, <<>>),
   Element(DEFINE_TAG, <<>>, <<>>)}

UsePool ==
  {CardUse,
   Element(MY_BIG, <<Attr(ID, <<"u">>)>>, <<Text(<<"U">>)>>),
   Element(FOO, <<>>, <<>>),
   Element(DIV, <<>>, <<Element(MY_CARD, <<>>, <<Element(MY_BIG, <<>>, <<>>)>>)>>),
   SlotNamed(HEADER),
   Element(<<":", "f", "o", "o">>, <<>>, <<Text(<<"X">>)>>)}

MacroPage(defs, uses, usesFirst) ==
  Element(HTML, <<>>, IF usesFirst THEN uses \o defs ELSE defs \o uses)

MacroScenarios ==
  {Scenario(Family("macro", 0, FALSE, usesFirst), RootD,
            PathA :> File(MacroPage(defs, uses, usesFirst)), <<"a">>) :
     defs \in SeqsUpTo(DefPool, MaxDefs), uses \in SeqsUpTo(UsePool, 1),
     usesFirst \in BOOLEAN}

\* ---- path: names inside and outside the document root -------------------
RootPaths == {RootD, <<"/", "d", "/">>}

EntryNames ==
  {<<"a">>, <<"s", "/", "b">>, <<"/", "a">>,
   <<".", ".", "/", "d", "2", "/", "x">>,
   <<"/", ".", ".", "/", "e", "/", "x">>,
   <<".", ".", "/", "d", "/", "c">>}

SrcNames ==
  {<<"c">>, <<".", ".", "/", "c">>, <<"/", "c">>,
   <<".", ".", "/", "d", "2", "/", "x">>,
   <<".", ".", "/", ".", ".", "/", "d", "2", "/", "x">>,
   <<".", ".", "/", ".", ".", "/", "e", "/", "x">>}

PathFs(src) ==
  (PathA :> File(Element(HTML, <<>>, <<Include(src)>>)))
  @@ (PathSB :> File(Element(HTML, <<>>, <<Include(src)>>)))
  @@ (PathC :> File(Element(DIV, <<>>, <<Text(<<"c">>)>>)))
  @@ (OutsideX :> File(Element(DIV, <<>>, <<Text(<<"x">>)>>)))
  @@ (OutsideE :> File(Element(DIV, <<>>, <<Text(<<"e">>)>>)))

PathScenarios ==
  {Scenario(Family("path", 0, FALSE, FALSE), root, PathFs(src), fname) :
     root \in RootPaths, src \in SrcNames, fname \in EntryNames}

\* ---- import: three files importing one another --------------------------
MaxImports == 2

ImportFs(ia, ib, ic) ==
  (PathA :> File(Element(HTML, <<>>,
              <<Text(<<"A">>)>> \o [k \in 1..Len(ia) |-> Import(ia[k])])))
  @@ (PathB :> File(Element(DIV, <<Attr(ID, <<"b">>)>>,
              <<Text(<<"B">>)>> \o [k \in 1..Len(ib) |-> Import(ib[k])])))
  @@ (PathC :> File(Element(DIV, <<>>,
              <<Text(<<"C">>)>> \o [k \in 1..Len(ic) |-> Import(ic[k])])))

ImportScenarios ==
  {Scenario(Family("import", 0, TRUE, FALSE), RootD, ImportFs(ia, ib, ic), <<"a">>) :
     ia \in SeqsUpTo({<<"a">>, <<"b">>, <<".", "/", "b">>, <<"c">>}, MaxImports),
     ib \in SeqsUpTo({<<"a">>, <<"b">>, <<"c">>}, 1),
     ic \in {<<>>, << <<"/", "a">> >>}}

\* ---- chain: file k includes (or imports) file k + 1 ----------------------
ChainExtra == 1

DigitChars == <<"0", "1", "2", "3", "4", "5", "6", "7", "8", "9">>
RECURSIVE Digits(_)
Digits(k) ==
  IF k < 10 THEN <<DigitChars[k + 1]>>
  ELSE Digits(k \div 10) \o <<DigitChars[(k % 10) + 1]>>

ChainName(k) == <<"f">> \o Digits(k)
ChainPath(k) == RootD \o <<"/">> \o ChainName(k)

ChainFile(k, n, once, back) ==
  LET next == IF k < n - 1 THEN <<ChainName(k + 1)>>
              ELSE IF back THEN <<ChainName(0)>> ELSE <<>>
  IN File(Element(HTML, <<>>,
            <<Text(<<"t">>)>>
            \o [j \in 1..Len(next) |->
                  IF once THEN Import(next[j]) ELSE Include(next[j])]))

ChainFs(n, once, back) ==
  [p \in {ChainPath(k) : k \in 0..(n - 1)} |->
     ChainFile(CHOOSE k \in 0..(n - 1) : ChainPath(k) = p, n, once, back)]

ChainScenarios ==
  {Scenario(Family("chain", n, once, back), RootD, ChainFs(n, once, back), ChainName(0)) :
     n \in MAX_NESTING..(MAX_NESTING + ChainExtra), once \in BOOLEAN, back \in BOOLEAN}

\* ---- attrs: inclusions under one parent element -------------------------
MaxIncludes == 2

ParentAttributes ==
  {<<>>, <<Attr(CLASS, <<"y">>)>>, <<Attr(ID, <<"p">>), Attr(CLASS, <<"y">>)>>}

IncludePool ==
  {Include(<<"b">>), Include(<<"c">>), Include(<<"z">>), Import(<<"b">>),
   Include(<<"e">>)}

AttrsFs(pa, ds) ==
  (PathA :> File(Element(HTML, pa, ds)))
  @@ (PathB :> File(Element(DIV, <<Attr(ID, <<"b">>), Attr(CLASS, <<"x">>)>>,
                            <<Text(<<"h">>)>>)))
  @@ (PathC :> File(Element(DIV, <<Attr(ID, <<"c">>)>>, <<Include(<<"b">>)>>)))
  @@ (PathE :> SyntaxErrorFile)

AttrsScenarios ==
  {Scenario(Family("attrs", 0, FALSE, FALSE), RootD, AttrsFs(pa, ds), <<"a">>) :
     pa \in ParentAttributes, ds \in SeqsUpTo(IncludePool, MaxIncludes) \ {<<>>}}

Scenarios ==
  CardScenarios \cup PathScenarios \cup ImportScenarios \cup ChainScenarios
  \cup AttrsScenarios \cup MacroScenarios \cup InheritScenarios \cup RecurScenarios

Init ==
  /\ \E scn \in Scenarios :
       /\ family = scn.family
       /\ rootPath = scn.rootPath
       /\ fsys = scn.fsys
       /\ entry = scn.entry
  /\ order \in {"pre", "post"}
  /\ nodes = <<>>
  /\ files = <<>>
  /\ errors = <<>>
  /\ macros = <<>>
  /\ ast = 0
  /\ reads = <<>>
  /\ stack = <<>>
  /\ last = Step("init")
  /\ pc = "start"
  /\ tick = 0

Spec == Init /\ [][Next]_vars

\* load has not returned
Running == pc # "done" /\ Ticked

\* the program runs on until load returns
FairSpec == Spec /\ WF_tick(Running)

\* ------------------------------------------------------------------------
\* properties
\* ------------------------------------------------------------------------
Done == pc = "done"

\* how many diagnostics carry the message msg
Diagnostics(msg) == Cardinality({k \in 1..Len(errors) : errors[k].msg = msg})

NoDuplicates(seq) == \A i, j \in 1..Len(seq) : i # j => seq[i] # seq[j]

\* the directory segments of a path, '.' and '..' resolved
SegmentsOf(p) == NormalizeSegs(Split(p, "/"), <<>>, FALSE)

\* the document root is an ancestor of p (or p itself)
InsideRoot(p) ==
  /\ Len(SegmentsOf(rootPath)) <= Len(SegmentsOf(p))
  /\ \A k \in 1..Len(SegmentsOf(rootPath)) : SegmentsOf(p)[k] = SegmentsOf(rootPath)[k]

\* the latest step was a call of parse for a name that is not blank
AskedFile == last.op \in {"load", "enter", "fail"} /\ last.pname # <<>>

\* C1: every entry of files is a path inside the document root (the root
\* directory is an ancestor of it), and a request for a path outside the root
\* gives the error forbidden pathname, no tree, and nothing new in files.
C1_Sandboxed ==
  /\ \A k \in 1..Len(files) : InsideRoot(rootPath \o files[k])
  /\ (AskedFile /\ ~InsideRoot(last.pname)) =>
       /\ last.status = "forbidden"
       /\ files = last.files
       /\ errors[Len(errors)].msg = "forbidden pathname"

\* the load uses :import only
ImportOnly == family.name = "import" \/ (family.name = "chain" /\ family.once)

\* the latest step was an :import of a file that was in files already
KnownImport == last.op \in {"enter", "fail"} /\ last.once /\ last.known

\* the latest step put nothing in the referring parent and added no diagnostic
InsertedNothing ==
  /\ last.status = "skipped"
  /\ nodes[last.parent].children =
       Splice(last.nodes[last.parent].children, last.i, 1, <<>>)
  /\ errors = last.errors
  /\ files = last.files

\* C2, as claimed: files has no duplicate, with :import only no file is read
\* twice, and every :import of a file already in files inserts nothing and adds
\* no diagnostic.
C2_ImportOnce_AsClaimed ==
  /\ NoDuplicates(files)
  /\ ImportOnly => NoDuplicates([k \in 1..Len(reads) |-> reads[k].path])
  /\ KnownImport => InsertedNothing

\* C2, amended: the same, for every :import made below the nesting bound (an
\* :import at nesting MAX_NESTING gets the depth diagnostic first).
C2_ImportOnce ==
  /\ NoDuplicates(files)
  /\ ImportOnly => NoDuplicates([k \in 1..Len(reads) |-> reads[k].path])
  /\ (KnownImport /\ last.nesting < MAX_NESTING) => InsertedNothing

C2_Witness ==
  /\ family.name = "import"
  /\ KnownImport
  /\ last.nesting < MAX_NESTING
  /\ last.nesting > 1
  /\ Len(reads) > 1

\* a chain of n files, each with one :include of the next
LinearChain(n) ==
  family.name = "chain" /\ family.n = n /\ ~family.once /\ ~family.back

\* C3: no file is read at nesting >= MAX_NESTING; a linear chain of
\* MAX_NESTING + 1 files gives exactly one too many nested inclusions
\* diagnostic, leaves the last file out of files and still returns the entry
\* file's tree; a chain of MAX_NESTING files gives no such diagnostic.
C3_InclusionDepth ==
  /\ \A k \in 1..Len(reads) : reads[k].nesting < MAX_NESTING
  /\ (Done /\ LinearChain(MAX_NESTING + 1)) =>
       /\ Diagnostics("too many nested inclusions") = 1
       /\ \A k \in 1..Len(files) : files[k] # <<"/">> \o ChainName(MAX_NESTING)
       /\ Len(files) = MAX_NESTING
       /\ ast # 0
       /\ nodes[ast].name = HTML
  /\ (Done /\ LinearChain(MAX_NESTING)) =>
       /\ Diagnostics("too many nested inclusions") = 0
       /\ Len(files) = MAX_NESTING

C3_Witness ==
  /\ Done
  /\ LinearChain(MAX_NESTING + 1)
  /\ Len(reads) = MAX_NESTING
  /\ Diagnostics("too many nested inclusions") = 1

AttributeNames(as) == [k \in 1..Len(as) |-> as[k].name]
Among(x, seq) == \E k \in 1..Len(seq) : seq[k] = x

\* after an inclusion that gave the root r: the attributes the parent had are
\* where they were, with their values; what follows them is one attribute of r
\* for each name of r the parent did not have; no name twice
Propagated(before, r, after) ==
  /\ Len(after) >= Len(before)
  /\ SubSeq(after, 1, Len(before)) = before
  /\ \A k \in 1..Len(r) :
       ~Among(r[k].name, AttributeNames(before)) => Among(r[k], after)
  /\ \A m \in (Len(before) + 1)..Len(after) :
       Among(after[m], r) /\ ~Among(after[m].name, AttributeNames(before))
  /\ NoDuplicates(AttributeNames(after))

\* C7: an inclusion keeps the value of every attribute the referring parent
\* had, appends every attribute of the included root whose name the parent did
\* not have, and leaves the parent's attribute names unique; an inclusion that
\* fails changes no attribute of the parent.
C7_AttributePropagation ==
  /\ last.op = "return" =>
       /\ last.nodes[last.parent].attributes = last.attrs
       /\ Propagated(last.attrs, last.nodes[last.root].attributes,
                     nodes[last.parent].attributes)
  /\ last.op = "fail" =>
       nodes[last.parent].attributes = last.nodes[last.parent].attributes

\* the parent had an attribute the included root has too, and gained another
C7_Witness ==
  /\ family.name = "attrs"
  /\ last.op = "return"
  /\ \E k \in 1..Len(last.attrs) :
       Among(last.attrs[k].name, AttributeNames(last.nodes[last.root].attributes))
  /\ Len(nodes[last.parent].attributes) > Len(last.attrs)

\* the elements of the tree load returned
FinalElements == ElementsBelow(nodes, ast)

\* C4: in the tree load returns, no element has a tag name that begins with
\* ':'; every :slot element has been consumed.
C4_NoDirectiveRemains ==
  (Done /\ ast # 0) =>
    \A n \in FinalElements : ~StartsWith(nodes[n].name, TAGS_PREFIX)

HasDash(name) == Among("-", name)

\* the tag attribute of the :define the latest step collected
DefineTag == getJSXAttribute(last.nodes[last.root], DEFINE_TAG_ATTR)

\* the latest step collected a :define whose name part has no dash
DashlessDefine ==
  /\ last.op = "define"
  /\ DefineTag # <<>>
  /\ ~HasDash(TagName(DefineTag))

\* C5: a :define whose name part has no dash gets the invalid tag name
\* warning, registers no macro and is removed from the host tree; only names
\* with a dash become keys of the macro registry.
C5_NameNeedsDash ==
  /\ DashlessDefine =>
       /\ macros = last.macros
       /\ Len(errors) = Len(last.errors) + 1
       /\ errors[Len(errors)].msg = "invalid tag name"
       /\ ~Among(last.root, nodes[last.parent].children)
  /\ \A name \in DOMAIN macros : HasDash(name)

\* C8, for the registries that hold dash-containing names only: when load
\* ends with no too many nested macros diagnostic, no element of the final
\* tree but its root has the name of a registered macro.
C8_ExpansionCoverage ==
  (/\ Done /\ ast # 0
   /\ Diagnostics("too many nested macros") = 0
   /\ \A name \in DOMAIN macros : HasDash(name)) =>
    \A n \in FinalElements \ {ast} : nodes[n].name \notin DOMAIN macros

\* load has returned the tree of the card page
CardLoaded == Done /\ family.name = "card" /\ ast # 0

\* what is left under the page's root: the definition is gone, so the only
\* child is what replaced the use
CardResult == TreeOf(nodes, ast).children

\* C6, as claimed: the use <my-card><span name="header">H</span>B</my-card> is
\* replaced by exactly <div class="card"><span>H</span>B</div>.
C6_Card_AsClaimed ==
  CardLoaded =>
    CardResult =
      <<Element(DIV, <<Attr(CLASS, CARD)>>,
          <<Element(SPAN, <<>>, <<Text(<<"H">>)>>), Text(<<"B">>)>>)>>

\* C6, amended: the use is replaced by exactly
\* <div><div class="card"><span name="header">H</span>B</div></div>: the root
\* of the replacement is the definition element renamed to its base div, the
\* div with class card is its only child, the span sits at the position of the
\* header slot and keeps its name attribute, the text B sits at the position
\* of the default slot, and no :slot remains.
C6_Card ==
  CardLoaded =>
    /\ CardResult =
         <<Element(DIV, <<>>,
             <<Element(DIV, <<Attr(CLASS, CARD)>>,
                 <<Element(SPAN, <<Attr(SLOT_NAME_ATTR, HEADER)>>, <<Text(<<"H">>)>>),
                   Text(<<"B">>)>>)>>)>>
    /\ \A n \in FinalElements : nodes[n].name # SLOT_TAG
    /\ errors = <<>>

C6_Witness == CardLoaded /\ DOMAIN macros = {MY_CARD} /\ Len(nodes[ast].children) = 1

\* the calls of expandMacros in progress
ExpandCalls == {k \in 1..Len(stack) : stack[k].kind = "expand"}

\* a use-site is stamped (its replacement is another node) only by a call whose
\* nesting counter is within the bound
StampedWithinBound ==
  \A k \in ExpandCalls : \A j \in 1..Len(stack[k].items) :
    (stack[k].items[j].res # stack[k].items[j].use) <=> (stack[k].nesting <= MAX_NESTING)

\* the latest step put a use-site back where it was: expandMacro had returned
\* the use itself
LeftUnexpanded == last.op = "replace" /\ last.root = last.use

\* the use-site left is in its parent, as it was in the stored body, and a
\* diagnostic names its macro
StaysAsItWas ==
  /\ last.nesting > MAX_NESTING
  /\ Among(last.use, nodes[last.parent].children)
  /\ nodes[last.use].name \in DOMAIN macros
  /\ nodes[last.use] = Element(nodes[last.use].name, <<>>, <<>>)
  /\ errors[Len(errors)] =
       CodeError("error", "too many nested macros", nodes[last.use].name)

\* load has returned for a page whose macro body holds one use of the macro
\* itself, directly or through another macro
RecurLoaded == Done /\ family.name = "recur" /\ ast # 0

\* load is at a step it can take: the top call is the one pc names
CanStep ==
  \/ pc = "start"
  \/ pc \in {"directives", "expand"} /\ Len(stack) > 0 /\ Top.kind = pc

C9_Safe ==
  /\ ~Done => CanStep
  /\ StampedWithinBound
  /\ (family.name = "recur" /\ LeftUnexpanded) => StaysAsItWas
  /\ RecurLoaded => Diagnostics("too many nested macros") = 1

\* C9: load terminates; a use-site is stamped only while the nesting counter
\* is <= MAX_NESTING; the use-site reached with a larger counter gets the error
\* too many nested macros and stays in the tree unchanged; a body with a
\* single self-use gives exactly one such diagnostic.
C9_MacroDepth == [](C9_Safe) /\ <>Done

C9_Witness ==
  /\ RecurLoaded
  /\ Diagnostics("too many nested macros") = 1
  /\ \E n \in 1..Len(nodes) :
       /\ nodes[n] = Element(A_B, <<>>, <<>>) \/ nodes[n] = Element(C_D, <<>>, <<>>)
       /\ \E p \in 1..Len(nodes) : p > Len(nodes) - 4 /\ Among(n, nodes[p].children)

\* the :slot elements under id, id itself apart
SlotsBelow(ns, id) == {n \in ElementsBelow(ns, id) \ {id} : ns[n].name = SLOT_TAG}

SlotName(ns, n) == getJSXAttribute(ns[n], SLOT_NAME_ATTR)

\* the latest step collected a :define whose base is a registered macro
InheritStep ==
  /\ last.op = "define"
  /\ DefineTag # <<>>
  /\ TagMatches(DefineTag)
  /\ HasFrom(TagBase(DefineTag), last.macros)

\* P as it was registered when the step began, and C as it is registered now
ParentMacro == last.macros[TagBase(DefineTag)]
ChildMacro == macros[TagName(DefineTag)]

\* the slots of P's stored body, and their names with the default slot's
ParentSlots == SlotsBelow(last.nodes, ParentMacro.node)
ParentSlotNames ==
  {SlotName(last.nodes, n) : n \in ParentSlots} \cup {SLOT_DEFAULT_NAME}

\* the slots of that name in C's definition, and in the body stored for C
OwnSlots(name) ==
  {n \in SlotsBelow(last.nodes, last.root) : SlotName(last.nodes, n) = name}
StoredSlots(name) ==
  {n \in SlotsBelow(nodes, ChildMacro.node) : SlotName(nodes, n) = name}

\* the body stored for C has one slot of each of P's slot names: C's own when
\* C's definition has one, otherwise P's, which is a node of the clone
OneSlotEach ==
  \A name \in ParentSlotNames :
    /\ Cardinality(StoredSlots(name)) = 1
    /\ IF OwnSlots(name) # {}
       THEN StoredSlots(name) \subseteq OwnSlots(name)
       ELSE \A n \in StoredSlots(name) : n > Len(last.nodes)

\* the registry's entry for P and the body it holds are as they were
ParentUnchanged ==
  /\ macros[ParentMacro.name] = ParentMacro
  /\ TreeOf(nodes, ParentMacro.node) = TreeOf(last.nodes, ParentMacro.node)

\* C10, as claimed: when C is defined with a registered macro P as its base,
\* the body stored for C has, for every slot name of P's body, exactly one
\* :slot of that name, C's own when C's definition has one and P's otherwise,
\* and the body stored for P is unchanged.
C10_SlotOverride_AsClaimed == InheritStep => (OneSlotEach /\ ParentUnchanged)

\* P's body has no two slots of one name and no slot inside a slot
PlainParent ==
  /\ \A m, n \in ParentSlots :
       SlotName(last.nodes, m) = SlotName(last.nodes, n) => m = n
  /\ \A n \in ParentSlots : SlotsBelow(last.nodes, n) = {}

\* the name under which populateMacro routes child k of C's definition
RoutedTo(k) ==
  IF last.nodes[k].type = "JSXElement" /\ SlotName(last.nodes, k) # <<>>
  THEN SlotName(last.nodes, k) ELSE SLOT_DEFAULT_NAME

\* C's definition has at most one slot of each of P's slot names, and each lies
\* in a child of the definition that is routed to a slot of P
PlainChild ==
  \A name \in ParentSlotNames :
    /\ Cardinality(OwnSlots(name)) <= 1
    /\ \A n \in OwnSlots(name) :
         \E j \in 1..Len(last.nodes[last.root].children) :
           /\ n \in Below(last.nodes, last.nodes[last.root].children[j])
           /\ RoutedTo(last.nodes[last.root].children[j]) \in ParentSlotNames

\* C10, amended: the same, when P's body has no two slots of one name and no
\* slot inside a slot, and C's definition has at most one slot of each of P's
\* slot names, each in a child that is routed to a slot of P.
C10_SlotOverride ==
  (InheritStep /\ PlainParent /\ PlainChild) => (OneSlotEach /\ ParentUnchanged)

\* C overrides one slot of P and keeps another
C10_Witness ==
  /\ InheritStep /\ PlainParent /\ PlainChild
  /\ OwnSlots(HEADER) # {}
  /\ OwnSlots(SLOT_DEFAULT_NAME) = {}
  /\ Cardinality(ParentSlots) = 2
  /\ OneSlotEach

====
